---- MODULE Spec2Model ----
(***************************************************************************)
(* Model of the client-side file validation of the document-upload demo:   *)
(* FileValidator (src/src/lib/file-validation.ts).  A file name is a       *)
(* sequence of one-character strings, file content is a sequence of byte   *)
(* values, and a validation result is a record that has exactly the keys   *)
(* the returned object literal has.                                        *)
(***************************************************************************)
EXTENDS Integers, Sequences, FiniteSets, TLC

VARIABLES
  options,   \* this.options of the FileValidator
  pc,        \* where the validateFile call is: "idle", "reading", "done"
  file,      \* the File the call validates
  reader,    \* the FileReader of validatePdfHeader: "none", "loading", "loaded", "error"
  caught,    \* the error bound by validateFile's catch clause
  result,    \* the FileValidationResult the call returned
  \* Download All button (main page)
  dlFormat,  \* processingSettings.outputFormat
  dlPc,      \* where the onClick handler is: "idle", "docx", "scheduled"
  dlClock,   \* the time, in ms
  dlCount,   \* downloadCount
  dlTimers,  \* the pending setTimeout callbacks, in the order they were set
  dlStarted, \* the downloads started (saveAs), with their start times
  \* refactored page (DocumentProcessing) and its ProcessingTimeline
  uploadedCount,    \* uploadedFiles.length
  isProcessing,
  currentStep,
  processingResult, \* null or { actions, logs }
  runPc,            \* where handleProcessDocuments is: "idle", "step",
                    \* "recording", "recordingFailure"
  runIndex,         \* the loop variable i
  runSteps,         \* the status of each entry of the local array steps
  runActions,       \* the local array actions
  runLogs,          \* the local array logs
  completedSteps,   \* the state completedSteps of ProcessingTimeline
  pageHistory,      \* the statuses recorded by addHistoryEntry
  pageDownloads,    \* the files saved by handleDownload
  \* mockApi.createHistory of useProcessingHistory
  hsStored,   \* localStorage item 'processingHistory', parsed
  hsPending,  \* the createHistory calls waiting in their delay
  hsCreated,  \* every entry createHistory has returned, in order of creation
  hsClock,    \* Date.now()
  \* validateFile calls in progress at once on one FileValidator
  calls,      \* per call: its position, its parameter file, its own
              \* FileReader and the blob it reads, the caught fault, the result
  \* UploadZone
  upMaxFiles,     \* the prop maxFiles
  upCalls,        \* how many times handleFileUpload has been called
  upFiles,        \* fileArray of the latest call
  upPc,           \* where that call is: "idle", "validating", "waiting"
  upIndex,        \* the position of the loop over fileArray
  upList,         \* the local array uploadedFiles
  upReaders,      \* the FileReaders started, by fileId, each with the
                  \* interval and the local progress its onload sets up
  uploadProgress, \* the state uploadProgress, by fileId
  upDelivered,    \* how many times onFilesUploaded has been called
  \* main page: processDocuments
  mainValidFiles,   \* uploadedFiles.filter(file => !file.error).length
  mainIsProcessing,
  mainCurrentStep,
  mainResult,       \* processingResult: null or set
  mainPc            \* where processDocuments is: "idle", "step", "fetching"

validatorVars == <<options, pc, file, reader, caught, result>>

downloadVars == <<dlFormat, dlPc, dlClock, dlCount, dlTimers, dlStarted>>

pageVars ==
  <<uploadedCount, isProcessing, currentStep, processingResult, runPc, runIndex,
    runSteps, runActions, runLogs, completedSteps, pageHistory, pageDownloads>>

historyVars == <<hsStored, hsPending, hsCreated, hsClock>>

uploadVars ==
  <<upMaxFiles, upCalls, upFiles, upPc, upIndex, upList, upReaders,
    uploadProgress, upDelivered>>

mainVars ==
  <<mainValidFiles, mainIsProcessing, mainCurrentStep, mainResult, mainPc>>

vars ==
  <<validatorVars, downloadVars, pageVars, historyVars, calls, uploadVars,
    mainVars>>

\* what the steps of one component leave alone
exceptValidator ==
  <<downloadVars, pageVars, historyVars, calls, uploadVars, mainVars>>
exceptDownload ==
  <<validatorVars, pageVars, historyVars, calls, uploadVars, mainVars>>
exceptPage ==
  <<validatorVars, downloadVars, historyVars, calls, uploadVars, mainVars>>
exceptHistory ==
  <<validatorVars, downloadVars, pageVars, calls, uploadVars, mainVars>>
exceptCalls ==
  <<pc, file, reader, caught, result, downloadVars, pageVars, historyVars,
    uploadVars, mainVars>>
exceptUpload ==
  <<validatorVars, downloadVars, pageVars, historyVars, calls, mainVars>>
exceptMain ==
  <<validatorVars, downloadVars, pageVars, historyVars, calls, uploadVars>>

(***************************************************************************)
(* Bounds of the explored input space.                                     *)
(***************************************************************************)
\* longest enumerated file name; the named files below are explored as well
MaxNameLen == 3

Min(a, b) == IF a < b THEN a ELSE b

(***************************************************************************)
(* Characters and strings.                                                 *)
(***************************************************************************)
UpperCase ==
  <<"A","B","C","D","E","F","G","H","I","J","K","L","M",
    "N","O","P","Q","R","S","T","U","V","W","X","Y","Z">>

LowerCase ==
  <<"a","b","c","d","e","f","g","h","i","j","k","l","m",
    "n","o","p","q","r","s","t","u","v","w","x","y","z">>

\* String.prototype.toLowerCase on one character
LowerChar(c) ==
  IF \E i \in 1..Len(UpperCase) : UpperCase[i] = c
  THEN LowerCase[CHOOSE i \in 1..Len(UpperCase) : UpperCase[i] = c]
  ELSE c

toLowerCase(s) == [i \in 1..Len(s) |-> LowerChar(s[i])]

\* Array.prototype.includes
includes(arr, x) == \E i \in 1..Len(arr) : arr[i] = x

\* String.prototype.lastIndexOf for a one-character needle: 0-based, -1 if absent
lastIndexOf(s, c) ==
  IF \E i \in 1..Len(s) : s[i] = c
  THEN (CHOOSE i \in 1..Len(s) : s[i] = c /\ \A j \in (i+1)..Len(s) : s[j] # c) - 1
  ELSE -1

\* x >>> 0 (ToUint32) as the two 16-bit halves of the 32-bit result,
\* for -65536 <= x < 65536
Uint32 == [hi : 0..65535, lo : 0..65535]

ushr0(x) ==
  IF x >= 0 THEN [hi |-> 0, lo |-> x]
  ELSE [hi |-> 65535, lo |-> 65536 + x]

\* String.prototype.slice(start) where start = u + k, u an unsigned 32-bit
\* value and k a small non-negative number: start is clamped to the length
sliceFrom(s, u, k) ==
  IF u.hi > 0 THEN <<>>
  ELSE SubSeq(s, Min(u.lo + k, Len(s)) + 1, Len(s))

\* String.prototype.substring(0, n)
substring0(s, n) == SubSeq(s, 1, Min(Len(s), n))

\* /suffix$/i .test(s): s ends with suffix, ignoring case
endsWithIgnoreCase(s, suffix) ==
  /\ Len(s) >= Len(suffix)
  /\ toLowerCase(SubSeq(s, Len(s) - Len(suffix) + 1, Len(s))) = toLowerCase(suffix)

(***************************************************************************)
(* FileValidator: configuration.                                           *)
(***************************************************************************)
PDF_TYPE == "application/pdf"

DEFAULT_OPTIONS ==
  [ maxSizeBytes      |-> 10 * 1024 * 1024,
    allowedTypes      |-> <<"application/pdf", "image/jpeg", "image/png",
                            "image/gif", "image/webp">>,
    allowedExtensions |-> << <<".","p","d","f">>, <<".","j","p","g">>,
                             <<".","j","p","e","g">>, <<".","p","n","g">>,
                             <<".","g","i","f">>, <<".","w","e","b","p">> >>,
    scanForMalware    |-> FALSE ]

\* constructor: { ...DEFAULT_OPTIONS, ...options }; an override is a function
\* from some of the option names to their values
mergeOptions(overrides) ==
  [k \in DOMAIN DEFAULT_OPTIONS |->
     IF k \in DOMAIN overrides THEN overrides[k] ELSE DEFAULT_OPTIONS[k]]

(***************************************************************************)
(* FileValidator: helpers.                                                 *)
(***************************************************************************)
\* variant: filename.split('.').pop(), which gives the whole name when the
\* name has no '.'
getFileExtensionSplitPop(filename) ==
  SubSeq(filename, lastIndexOf(filename, ".") + 2, Len(filename))

\* filename.slice((filename.lastIndexOf('.') - 1 >>> 0) + 2)
getFileExtension(filename) ==
  sliceFrom(filename, ushr0(lastIndexOf(filename, ".") - 1), 2)

DangerousChars == {"<", ">", ":", "\"", "/", "\\", "|", "?", "*"}

\* the characters of the regular-expression class \s that file names use here
Whitespace == {" ", "\t"}

\* .replace(/[<>:"/\\|?*]/g, '_')
replaceDangerous(s) ==
  [i \in 1..Len(s) |-> IF s[i] \in DangerousChars THEN "_" ELSE s[i]]

\* .replace(/\s+/g, '_') with class = Whitespace and .replace(/_{2,}/g, '_')
\* with class = {"_"}: every maximal run of class characters becomes one "_"
\* (a run of a single "_" is left as it is, which is the same string)
replaceRuns(s, class) ==
  LET idx  == [i \in 1..Len(s) |-> i]
      kept == SelectSeq(idx, LAMBDA i : ~(s[i] \in class /\ i > 1 /\ s[i-1] \in class))
  IN  [k \in 1..Len(kept) |-> IF s[kept[k]] \in class THEN "_" ELSE s[kept[k]]]

\* .replace(/^_+|_+$/g, '')
trimUnderscores(s) ==
  LET body == {i \in 1..Len(s) : s[i] # "_"}
  IN  IF body = {} THEN <<>>
      ELSE SubSeq(s, CHOOSE i \in body : \A j \in body : i <= j,
                     CHOOSE i \in body : \A j \in body : i >= j)

MAX_NAME_LENGTH == 255

sanitizeFileName(filename) ==
  substring0(
    trimUnderscores(
      replaceRuns(
        replaceRuns(replaceDangerous(filename), Whitespace),
        {"_"})),
    MAX_NAME_LENGTH)

suspiciousPatterns ==
  << <<".","e","x","e">>, <<".","b","a","t">>, <<".","c","m","d">>,
     <<".","s","c","r">>, <<".","p","i","f">>, <<".","c","o","m">>,
     <<".","v","b","s">>, <<".","j","s">>, <<".","j","a","r">> >>

matchesSuspiciousPattern(name) ==
  \E i \in 1..Len(suspiciousPatterns) : endsWithIgnoreCase(name, suspiciousPatterns[i])

\* '%PDF' as character codes
PDF_MAGIC == <<37, 80, 68, 70>>

PDF_HEADER_LENGTH == 4

\* reader.onload: new Uint8Array(arrayBuffer.slice(0, 4)), String.fromCharCode,
\* header === '%PDF'; content holds the leading bytes of the file
validatePdfHeader(content) ==
  SubSeq(content, 1, Min(Len(content), PDF_HEADER_LENGTH)) = PDF_MAGIC

\* formatBytes: the number printed, in hundredths, and its unit
formatBytes(bytes) ==
  IF bytes = 0 THEN <<0, "Bytes">>
  ELSE LET sizes == <<"Bytes", "KB", "MB", "GB">>
           i     == IF bytes < 1024 THEN 0
                    ELSE IF bytes < 1024 * 1024 THEN 1
                    ELSE IF bytes < 1024 * 1024 * 1024 THEN 2 ELSE 3
           unit  == IF i = 0 THEN 1
                    ELSE IF i = 1 THEN 1024
                    ELSE IF i = 2 THEN 1024 * 1024 ELSE 1024 * 1024 * 1024
           \* toFixed(2): round to the nearest hundredth
           whole == bytes \div unit
           frac  == ((bytes % unit) * 2 * 100 + unit) \div (2 * unit)
       IN  <<whole * 100 + frac, sizes[i + 1]>>

(***************************************************************************)
(* FileValidator.validateFile.  A result is a record with the keys of the  *)
(* object the code returns: isValid, and error or sanitizedFile when set.  *)
(***************************************************************************)
SIZE_ERROR      == "File size exceeds limit. Maximum allowed: "
TYPE_ERROR      == "Unsupported file type: "
EXTENSION_ERROR == "Unsupported file extension: "
SECURITY_ERROR  == "File type not allowed for security reasons"
PDF_ERROR       == "Invalid PDF file format"
FAILED_ERROR    == "File validation failed: "

\* variant: the size is taken in KB and compared with the limit in bytes
sizeInKbExceedsLimit(opts, f) == (f.size \div 1024) > opts.maxSizeBytes

\* 1. Check file size
sizeExceedsLimit(opts, f) == f.size > opts.maxSizeBytes

sizeResult(opts) ==
  [ isValid |-> FALSE,
    error   |-> [text |-> SIZE_ERROR, args |-> <<formatBytes(opts.maxSizeBytes)>>] ]

\* variant: the check reads the default list, not the configured one
typeAllowedByDefault(opts, f) == includes(DEFAULT_OPTIONS.allowedTypes, f.type)

\* 2. Check file type
typeAllowed(opts, f) == includes(opts.allowedTypes, f.type)

typeResult(opts, f) ==
  [ isValid |-> FALSE,
    error   |-> [text |-> TYPE_ERROR, args |-> <<f.type, opts.allowedTypes>>] ]

\* 3. Check file extension
extensionAllowed(opts, f) ==
  includes(opts.allowedExtensions, toLowerCase(getFileExtension(f.name)))

extensionResult(opts, f) ==
  [ isValid |-> FALSE,
    error   |-> [text |-> EXTENSION_ERROR,
                 args |-> <<getFileExtension(f.name), opts.allowedExtensions>>] ]

\* variant: new File([file], sanitizedName), which leaves the type empty
newSanitizedFileUntyped(f, sanitizedName) ==
  [ name |-> sanitizedName, type |-> "", size |-> f.size, content |-> f.content ]

\* 4. new File([file], sanitizedName, { type: file.type })
newSanitizedFile(f, sanitizedName) ==
  [ name |-> sanitizedName, type |-> f.type, size |-> f.size, content |-> f.content ]

\* variant: the renaming is also reported as an error
sanitizedResultWithError(f) ==
  [ isValid       |-> TRUE,
    sanitizedFile |-> newSanitizedFile(f, sanitizeFileName(f.name)),
    error         |-> [text |-> "File name was sanitized", args |-> <<>>] ]

sanitizedResult(f) ==
  [ isValid |-> TRUE, sanitizedFile |-> newSanitizedFile(f, sanitizeFileName(f.name)) ]

securityResult == [ isValid |-> FALSE, error |-> [text |-> SECURITY_ERROR, args |-> <<>>] ]

pdfResult == [ isValid |-> FALSE, error |-> [text |-> PDF_ERROR, args |-> <<>>] ]

validResult == [ isValid |-> TRUE ]

\* catch (error): error instanceof Error ? error.message : 'Unknown error'
failedResult(fault) ==
  [ isValid |-> FALSE,
    error   |-> [text |-> FAILED_ERROR,
                 args |-> <<IF fault.isError THEN fault.message ELSE "Unknown error">>] ]

\* an outcome of the part of a call that runs before the content read:
\* the value returned, or a pending read of the file header
Return(r) == [ returned |-> TRUE, value |-> r ]

AwaitRead == [ returned |-> FALSE ]

\* 5. performSecurityChecks up to the header read
performSecurityChecks(f) ==
  IF matchesSuspiciousPattern(f.name) THEN Return(securityResult)
  ELSE IF f.type = PDF_TYPE THEN AwaitRead
  ELSE Return(validResult)

\* validateFile up to the header read
validateFileChecks(opts, f) ==
  IF sizeExceedsLimit(opts, f) THEN Return(sizeResult(opts))
  ELSE IF ~typeAllowed(opts, f) THEN Return(typeResult(opts, f))
  ELSE IF ~extensionAllowed(opts, f) THEN Return(extensionResult(opts, f))
  ELSE IF sanitizeFileName(f.name) # f.name THEN Return(sanitizedResult(f))
  ELSE performSecurityChecks(f)

\* the result of the call once the read of the header has loaded
headerLoadedResult(f) ==
  IF validatePdfHeader(f.content) THEN validResult ELSE pdfResult

(***************************************************************************)
(* The explored inputs: configurations given to the constructor and the    *)
(* files given to validateFile.                                            *)
(***************************************************************************)
NoOverride == <<>>

OptionOverrides ==
  { s @@ t @@ e :
      s \in { NoOverride, [maxSizeBytes |-> 4] },
      t \in { NoOverride, [allowedTypes |-> <<"image/jpeg">>] },
      e \in { NoOverride,
              [allowedExtensions |-> << <<"p","d","f">>, <<"j","p","g">>, <<"a">> >>],
              [allowedExtensions |-> << <<"p","d","f">>, <<"a">>, <<"j","s">>,
                                        <<"e","x","e">> >>],
              [allowedExtensions |-> << <<>>, <<"p","d","f">> >>] } }

Configurations == { mergeOptions(o) : o \in OptionOverrides }

NameAlphabet == {"a", ".", " ", "<", "_"}

EnumeratedNames == UNION { [1..n -> NameAlphabet] : n \in 0..MaxNameLen }

Repeat(c, n) == [i \in 1..n |-> c]

NamedFiles ==
  { <<"f","i","l","e",".","p","d","f">>,
    <<"F","I","L","E",".","P","D","F">>,
    <<"n","o","e","x","t">>,
    <<".","p","d","f">>,
    <<"i","n","v","o","i","c","e",".","p","d","f",".","e","x","e">>,
    <<"I","N","V","O","I","C","E",".","E","X","E">>,
    <<"M","y"," ","F","i","l","e"," ","<","v","2",">",".","p","d","f">>,
    <<"m","y"," ","a","p","p",".","e","x","e">>,
    <<"a","p","p",".","j","s">>,
    <<"a","\t","b",".","J","S">>,
    <<"p","h","o","t","o",".","j","p","g">>,
    Repeat("a", 251) \o <<".","p","d","f">>,
    Repeat("a", 250) \o <<"_","b",".","p","d","f">>,
    Repeat("a", 254) \o <<"_","b",".","p","d","f">> }

FileNames == EnumeratedNames \cup NamedFiles

FileTypes == { "application/pdf", "image/jpeg", "application/x-msdownload" }

\* size of a file and its leading bytes
FileBodies ==
  { [size |-> 0, content |-> <<>>],
    [size |-> 3, content |-> <<37, 80, 68>>],
    [size |-> 4, content |-> <<37, 80, 68, 70>>],
    [size |-> 4, content |-> <<255, 216, 255, 224>>],
    [size |-> 5, content |-> <<37, 80, 68, 70, 45>>],
    [size |-> 10 * 1024 * 1024, content |-> <<37, 80, 68, 70, 45>>],
    [size |-> 10 * 1024 * 1024 + 1, content |-> <<37, 80, 68, 70, 45>>],
    [size |-> 10 * 1024 * 1024 + 1, content |-> <<255, 216, 255, 224, 0>>] }

Files ==
  { [name |-> n, type |-> t, size |-> b.size, content |-> b.content] :
      n \in FileNames, t \in FileTypes, b \in FileBodies }

\* what the header read can throw instead of starting
Faults ==
  { [isError |-> TRUE, message |-> "FileReader is not defined"],
    [isError |-> TRUE, message |-> "file.slice is not a function"] }

(***************************************************************************)
(* The state machine: one FileValidator and the call it is serving.        *)
(***************************************************************************)
NoFile == [ none |-> TRUE ]

NoFault == [ none |-> TRUE ]

NoResult == [ none |-> TRUE ]

\* the state after construction of a FileValidator
ValidatorInit ==
  /\ options \in Configurations
  /\ pc = "idle"
  /\ file = NoFile
  /\ reader = "none"
  /\ caught = NoFault
  /\ result = NoResult

\* the page before Download All is clicked
DownloadIdle ==
  /\ dlPc = "idle"
  /\ dlClock = 0
  /\ dlCount = 0
  /\ dlTimers = <<>>
  /\ dlStarted = <<>>

STEP_IDS ==
  <<"upload", "analysis", "conversion", "bates", "renaming", "generation",
    "logging", "completion">>

Null == [ null |-> TRUE ]

\* the refactored page after its first render
PageInit ==
  /\ uploadedCount = 0
  /\ isProcessing = FALSE
  /\ currentStep = 0
  /\ processingResult = Null
  /\ runPc = "idle"
  /\ runIndex = 0
  /\ runSteps = [k \in 1..Len(STEP_IDS) |-> "pending"]
  /\ runActions = <<>>
  /\ runLogs = <<>>
  /\ completedSteps = {}
  /\ pageHistory = <<>>
  /\ pageDownloads = <<>>

\* no history entry has been created yet
HistoryInit ==
  /\ hsStored = <<>>
  /\ hsPending = 0
  /\ hsCreated = <<>>
  /\ hsClock = 0

MaxCalls == 2

CallIds == 1..MaxCalls

IdleCall ==
  [ pc |-> "idle", file |-> NoFile, reader |-> "none", blob |-> <<>>,
    caught |-> NoFault, result |-> NoResult, overlapped |-> FALSE ]

\* no validateFile call is in progress
CallsIdle == calls = [c \in CallIds |-> IdleCall]

\* UploadZone({ maxFiles = 10 })
DEFAULT_MAX_FILES == 10

\* the upload zone as the page renders it, before any selection
UploadIdle ==
  /\ upCalls = 0
  /\ upFiles = <<>>
  /\ upPc = "idle"
  /\ upIndex = 0
  /\ upList = <<>>
  /\ upReaders = <<>>
  /\ uploadProgress = <<>>
  /\ upDelivered = 0

UploadParked == upMaxFiles = DEFAULT_MAX_FILES /\ UploadIdle

\* the main page with no run of processDocuments
MainIdle ==
  /\ mainIsProcessing = FALSE
  /\ mainCurrentStep = 0
  /\ mainResult = Null
  /\ mainPc = "idle"

MainParked == mainValidFiles = 0 /\ MainIdle

Init ==
  /\ ValidatorInit
  /\ CallsIdle
  /\ UploadParked
  /\ MainParked
  /\ dlFormat = "both"
  /\ DownloadIdle
  /\ PageInit
  /\ HistoryInit

\* validateFile(f) runs up to its return, or up to the read of the header
\* that validatePdfHeader starts
ValidateFile(f) ==
  /\ file' = f
  /\ LET outcome == validateFileChecks(options, f)
     IN  IF outcome.returned
         THEN pc' = "done" /\ reader' = "none" /\ result' = outcome.value
         ELSE pc' = "reading" /\ reader' = "loading" /\ result' = NoResult
  /\ UNCHANGED <<options, caught>>

\* validateFile(f) reaches validatePdfHeader, which throws instead of
\* starting the read: the promise rejects and the catch clause returns
ValidateFileThrows(f, fault) ==
  /\ ~validateFileChecks(options, f).returned
  /\ file' = f
  /\ caught' = fault
  /\ result' = failedResult(fault)
  /\ pc' = "done"
  /\ UNCHANGED <<options, reader>>

\* reader.onload
ReaderOnLoad ==
  /\ pc = "reading"
  /\ reader' = "loaded"
  /\ result' = headerLoadedResult(file)
  /\ pc' = "done"
  /\ UNCHANGED <<options, file, caught>>

\* reader.onerror: resolve(false)
ReaderOnError ==
  /\ pc = "reading"
  /\ reader' = "error"
  /\ result' = pdfResult
  /\ pc' = "done"
  /\ UNCHANGED <<options, file, caught>>

\* the caller takes the result; the validator serves the next call
TakeResult ==
  /\ pc = "done"
  /\ pc' = "idle"
  /\ file' = NoFile
  /\ reader' = "none"
  /\ caught' = NoFault
  /\ result' = NoResult
  /\ UNCHANGED options

Next ==
  \/ pc = "idle" /\ UNCHANGED exceptValidator /\ \E f \in Files : ValidateFile(f)
  \/ pc = "idle" /\ UNCHANGED exceptValidator
       /\ \E f \in Files, fault \in Faults : ValidateFileThrows(f, fault)
  \/ ReaderOnLoad /\ UNCHANGED exceptValidator
  \/ ReaderOnError /\ UNCHANGED exceptValidator
  \/ TakeResult /\ UNCHANGED exceptValidator

Spec == Init /\ [][Next]_vars

(***************************************************************************)
(* Properties of validateFile.  When pc = "done", file is the candidate    *)
(* and result is what validateFile returned for it.                        *)
(***************************************************************************)
HasError(r) == "error" \in DOMAIN r

ErrorIs(r, text) == HasError(r) /\ r.error.text = text

HasSanitizedFile(r) == "sanitizedFile" \in DOMAIN r

SizeWithinLimit == file.size <= options.maxSizeBytes

DeclaredTypeListed ==
  \E i \in 1..Len(options.allowedTypes) : options.allowedTypes[i] = file.type

\* the candidate passes checks 1 to 3
ReachesSanitization ==
  SizeWithinLimit /\ DeclaredTypeListed /\ extensionAllowed(options, file)

NoDot(name) == \A i \in 1..Len(name) : name[i] # "."

EndsWith(name, suffix) ==
  /\ Len(name) >= Len(suffix)
  /\ SubSeq(name, Len(name) - Len(suffix) + 1, Len(name)) = suffix

HeaderIsPdf ==
  /\ Len(file.content) >= 4
  /\ <<file.content[1], file.content[2], file.content[3], file.content[4]>>
       = <<37, 80, 68, 70>>

\* no fault was thrown and the header read, if any, did not fail
ReadUndisturbed == caught = NoFault /\ reader # "error"

\* C1: a candidate larger than maxSizeBytes gets an invalid result with the
\* size-limit error, whatever its type, name and content are.
C1_SizeExceeded ==
  (pc = "done" /\ file.size > options.maxSizeBytes)
    => (~result.isValid /\ ErrorIs(result, SIZE_ERROR))

\* an oversized candidate that also fails the type and extension checks
C1_Witness ==
  /\ pc = "done"
  /\ file.size > options.maxSizeBytes
  /\ ~DeclaredTypeListed
  /\ NoDot(file.name)
  /\ ErrorIs(result, SIZE_ERROR)

\* C2: a candidate whose declared type is not in allowedTypes gets an invalid
\* result, even when it would pass every other check.
C2_TypeNotAllowed ==
  (pc = "done" /\ ~DeclaredTypeListed) => ~result.isValid

\* a well-formed PDF within the limit, under a configuration that does not
\* list application/pdf, is rejected by the type check
C2_Witness ==
  /\ pc = "done"
  /\ ~DeclaredTypeListed
  /\ SizeWithinLimit
  /\ file.type = PDF_TYPE
  /\ file.name = <<"f","i","l","e",".","p","d","f">>
  /\ extensionAllowed(options, file)
  /\ HeaderIsPdf
  /\ ErrorIs(result, TYPE_ERROR)

\* C3: under the default configuration a fully valid PDF candidate (size
\* within the limit, type application/pdf, name ending in .pdf that needs no
\* sanitization, content starting with %PDF) gets a valid result with neither
\* an error nor a sanitized file.
C3_ValidPdfAccepted ==
  ( /\ pc = "done"
    /\ options = DEFAULT_OPTIONS
    /\ SizeWithinLimit
    /\ file.type = PDF_TYPE
    /\ EndsWith(file.name, <<".","p","d","f">>)
    /\ sanitizeFileName(file.name) = file.name
    /\ HeaderIsPdf
    /\ ReadUndisturbed )
    => (result.isValid /\ ~HasError(result) /\ ~HasSanitizedFile(result))

\* C4: with an allowlist containing '.pdf', candidates named 'FILE.PDF' and
\* 'file.pdf' that pass the size and type checks both pass the extension check.
C4_CaseInsensitiveExtension ==
  ( /\ pc = "done"
    /\ includes(options.allowedExtensions, <<".","p","d","f">>)
    /\ file.name \in { <<"F","I","L","E",".","P","D","F">>,
                       <<"f","i","l","e",".","p","d","f">> }
    /\ SizeWithinLimit
    /\ DeclaredTypeListed )
    => ~ErrorIs(result, EXTENSION_ERROR)

C6_BadHeaderRejected ==
  ( /\ pc = "done"
    /\ file.type = PDF_TYPE
    /\ ~HeaderIsPdf
    /\ ReachesSanitization
    /\ ~matchesSuspiciousPattern(file.name)
    /\ caught = NoFault )
    => (~result.isValid /\ ErrorIs(result, PDF_ERROR))

\* C7: a name ending in one of the denylisted suffixes (case-insensitively)
\* is rejected with the security error, for every declared type (stated for
\* the candidates that pass the size, type and extension checks).
C7_DenylistRejected ==
  ( /\ pc = "done"
    /\ \E i \in 1..Len(suspiciousPatterns) :
         EndsWith(toLowerCase(file.name), suspiciousPatterns[i])
    /\ ReachesSanitization )
    => (~result.isValid /\ ErrorIs(result, SECURITY_ERROR))

\* C8: in every result, an error is present iff isValid is false, and a
\* sanitized file is never present on an invalid result.
C8_ResultShape ==
  pc = "done" =>
    /\ HasError(result) <=> ~result.isValid
    /\ HasSanitizedFile(result) => result.isValid
    /\ ~(HasError(result) /\ HasSanitizedFile(result))

\* a result that carries a sanitized file
C8_Witness ==
  /\ pc = "done"
  /\ HasSanitizedFile(result)
  /\ result.isValid
  /\ ~HasError(result)

\* C9: the checks run in the order size, type, extension, sanitization,
\* denylist, PDF header; the first failing one decides the result and none is
\* skipped for a candidate that passed the earlier ones.
C9_FirstFailingCheckDecides ==
  (pc = "done" /\ ReadUndisturbed) =>
    IF ~SizeWithinLimit THEN ErrorIs(result, SIZE_ERROR)
    ELSE IF ~DeclaredTypeListed THEN ErrorIs(result, TYPE_ERROR)
    ELSE IF ~extensionAllowed(options, file) THEN ErrorIs(result, EXTENSION_ERROR)
    ELSE IF matchesSuspiciousPattern(file.name) THEN ErrorIs(result, SECURITY_ERROR)
    ELSE IF file.type = PDF_TYPE /\ ~HeaderIsPdf THEN ErrorIs(result, PDF_ERROR)
    ELSE result.isValid

\* C10: for a candidate that passes the size, type and extension checks, a
\* sanitized name that differs from the name gives at once a valid result
\* whose sanitized file has the sanitized name, the same bytes and the same
\* type; a sanitized name equal to the name gives no sanitized file.
C10_SanitizedFile ==
  (pc = "done" /\ ReachesSanitization) =>
    IF sanitizeFileName(file.name) # file.name
    THEN /\ reader = "none"
         /\ caught = NoFault
         /\ result = [ isValid |-> TRUE,
                       sanitizedFile |-> [ name    |-> sanitizeFileName(file.name),
                                           type    |-> file.type,
                                           size    |-> file.size,
                                           content |-> file.content ] ]
    ELSE ~HasSanitizedFile(result)

\* a renamed PDF: 'My File <v2>.pdf' comes back as 'My_File_v2_.pdf'
C10_Witness ==
  /\ pc = "done"
  /\ ReachesSanitization
  /\ file.name = <<"M","y"," ","F","i","l","e"," ","<","v","2",">",".","p","d","f">>
  /\ file.type = PDF_TYPE
  /\ HasSanitizedFile(result)
  /\ result.sanitizedFile.name
       = <<"M","y","_","F","i","l","e","_","v","2","_",".","p","d","f">>
  /\ result.sanitizedFile.content = file.content

\* C11: when validateFile returns a sanitized file, validating that file with
\* the same configuration renames nothing more (sanitizing the sanitized name
\* gives the same name) and the call goes on to the denylist and PDF-header
\* checks.
C11_RoundTrip ==
  (pc = "done" /\ HasSanitizedFile(result)) =>
    LET g == result.sanitizedFile
    IN  /\ sanitizeFileName(g.name) = g.name
        /\ validateFileChecks(options, g) = performSecurityChecks(g)

\* C12: the sanitized name has none of the characters < > : " / \ | ? *, no
\* whitespace, no two consecutive underscores, no leading or trailing
\* underscore and at most 255 characters.
C12_SanitizedNameClean ==
  (pc = "done" /\ ReachesSanitization) =>
    LET n == sanitizeFileName(file.name)
    IN  /\ \A i \in 1..Len(n) :
             n[i] \notin {"<", ">", ":", "\"", "/", "\\", "|", "?", "*", " ", "\t"}
        /\ \A i \in 1..(Len(n) - 1) : ~(n[i] = "_" /\ n[i+1] = "_")
        /\ Len(n) > 0 => (n[1] # "_" /\ n[Len(n)] # "_")
        /\ Len(n) <= 255

\* C13: every fault raised while checking, an unreadable content during the
\* PDF-header read included, is returned as an invalid result carrying the
\* generic 'File validation failed' message.
C13_FaultsGiveGenericFailure ==
  (pc = "done" /\ (caught # NoFault \/ reader = "error")) =>
    (~result.isValid /\ ErrorIs(result, FAILED_ERROR))

\* C14: the error message returned does not depend on the text of the fault
\* raised inside validation: any other fault message gives the same result.
C14_NoExceptionText ==
  (pc = "done" /\ caught # NoFault) =>
    \A other \in Faults : result.error = failedResult(other).error

(***************************************************************************)
(* The Download All button of the main page (onClick handler, the timers   *)
(* it sets and the downloads they start).  Time is in milliseconds.        *)
(***************************************************************************)
\* latest time explored
MaxClockMs == 3000

STAGGER_MS == 800

OutputFormats == {"docx", "pdf", "both"}

\* setTimeout(task, delay) at time now
setTimeout(timers, task, delay, now) ==
  Append(timers, [task |-> task, due |-> now + delay])

\* the handler from the PDF branch on, with downloadCount = count:
\* the PDF timer when the format asks for a PDF, then the log timer
pdfCount(format, count) ==
  IF format \in {"pdf", "both"} THEN count + 1 ELSE count

scheduleDownloads(format, count, now) ==
  LET withPdf == IF format \in {"pdf", "both"}
                 THEN setTimeout(<<>>, "pdf", STAGGER_MS, now)
                 ELSE <<>>
  IN  setTimeout(withPdf, "log", pdfCount(format, count) * STAGGER_MS, now)

\* saveAs(blob, name) at time now
saveAs(started, kind, now) == Append(started, [kind |-> kind, at |-> now])

DownloadInit ==
  /\ dlFormat \in OutputFormats
  /\ DownloadIdle

\* onClick: await generateMockDocx() when the format asks for a DOCX,
\* otherwise straight on to the timers
DownloadAllClick ==
  /\ dlPc = "idle"
  /\ IF dlFormat \in {"docx", "both"}
     THEN /\ dlPc' = "docx"
          /\ UNCHANGED <<dlCount, dlTimers>>
     ELSE /\ dlPc' = "scheduled"
          /\ dlCount' = pdfCount(dlFormat, 0)
          /\ dlTimers' = scheduleDownloads(dlFormat, 0, dlClock)
  /\ UNCHANGED <<dlFormat, dlClock, dlStarted>>

\* generateMockDocx resolves: zip.generateAsync is done and saveAs has run;
\* the handler goes on with downloadCount = 1
DocxGenerated ==
  /\ dlPc = "docx"
  /\ dlStarted' = saveAs(dlStarted, "docx", dlClock)
  /\ dlCount' = pdfCount(dlFormat, 1)
  /\ dlTimers' = scheduleDownloads(dlFormat, 1, dlClock)
  /\ dlPc' = "scheduled"
  /\ UNCHANGED <<dlFormat, dlClock>>

\* a timer is due
Due(i) == dlTimers[i].due <= dlClock

\* the due timer that runs next: earliest due time, then the order of setting
FireTimer ==
  /\ \E i \in 1..Len(dlTimers) :
       /\ Due(i)
       /\ \A j \in 1..Len(dlTimers) :
            \/ dlTimers[j].due > dlTimers[i].due
            \/ (dlTimers[j].due = dlTimers[i].due /\ j >= i)
       /\ dlStarted' = saveAs(dlStarted, dlTimers[i].task, dlClock)
       /\ dlTimers' = [k \in 1..(Len(dlTimers) - 1) |->
                         IF k < i THEN dlTimers[k] ELSE dlTimers[k + 1]]
  /\ UNCHANGED <<dlFormat, dlPc, dlClock, dlCount>>

\* time passes while no timer is due
Tick ==
  /\ \A i \in 1..Len(dlTimers) : ~Due(i)
  /\ dlClock + 100 <= MaxClockMs
  /\ dlClock' = dlClock + 100
  /\ UNCHANGED <<dlFormat, dlPc, dlCount, dlTimers, dlStarted>>

\* the validator of the page, with no call in progress
ValidatorIdle ==
  /\ options = DEFAULT_OPTIONS
  /\ pc = "idle"
  /\ file = NoFile
  /\ reader = "none"
  /\ caught = NoFault
  /\ result = NoResult

DownloadSpecInit ==
  /\ DownloadInit
  /\ ValidatorIdle
  /\ PageInit
  /\ HistoryInit
  /\ CallsIdle
  /\ UploadParked
  /\ MainParked

DownloadNext ==
  \/ DownloadAllClick /\ UNCHANGED exceptDownload
  \/ DocxGenerated /\ UNCHANGED exceptDownload
  \/ FireTimer /\ UNCHANGED exceptDownload
  \/ Tick /\ UNCHANGED exceptDownload

DownloadSpec == DownloadSpecInit /\ [][DownloadNext]_vars

\* C16: for every output format, any two downloads that Download All starts
\* are started at least 800 ms apart.
C16_DownloadsStaggered ==
  \A i, j \in 1..Len(dlStarted) :
    i < j => dlStarted[j].at - dlStarted[i].at >= 800


(***************************************************************************)
(* The refactored page: handleProcessDocuments, handleDownload and the     *)
(* ProcessingTimeline it renders.                                          *)
(***************************************************************************)
MaxUploaded == 2

MaxPageHistory == 2

MaxPageDownloads == 2

DownloadTypes == {"docx", "pdf", "logs"}

\* the actions a step adds (the switch on step.id)
stepActions(id) ==
  IF id = "conversion" THEN <<"convert">>
  ELSE IF id = "bates" THEN <<"bates">>
  ELSE IF id = "renaming" THEN <<"rename">>
  ELSE <<>>

\* the log entry a step adds (the switch on step.id)
stepLog(id) ==
  [ step  |-> id,
    level |-> IF id \in {"upload", "analysis", "logging"} THEN "info"
              ELSE "success" ]

\* variant: a new run keeps the result of the run before it
resultKeptAtStart(previous) == previous

\* setProcessingResult(null) at the start of a run
resultAtStart(previous) == Null

\* handleDownload: if (!processingResult) return
downloadProceeds(res) == res # Null

\* the completed set the effect of ProcessingTimeline computes
newCompletedSteps(step) == { STEP_IDS[k] : k \in 1..Min(step, Len(STEP_IDS)) }

\* the effect has yet to run for the rendered currentStep
EffectPending == completedSteps # newCompletedSteps(currentStep)

\* handleStepError is never called: no step is ever in errorSteps
errorSteps == {}

\* ProcessingTimeline.getStepStatus; index counts from 0
getStepStatus(index) ==
  LET id          == STEP_IDS[index + 1]
      isCompleted == id \in completedSteps
      hasError    == id \in errorSteps
      isActive    == index = currentStep - 1 /\ isProcessing
  IN  IF hasError THEN "error"
      ELSE IF isCompleted THEN "completed"
      ELSE IF isActive THEN "active"
      ELSE "pending"

\* useEffect of ProcessingTimeline, run after a render that changed currentStep
TimelineEffect ==
  /\ EffectPending
  /\ completedSteps' = newCompletedSteps(currentStep)
  /\ UNCHANGED <<uploadedCount, isProcessing, currentStep, processingResult,
                 runPc, runIndex, runSteps, runActions, runLogs, pageHistory,
                 pageDownloads>>

\* handleFilesUploaded: the upload zone hands over n more files
HandleFilesUploaded(n) ==
  /\ ~EffectPending
  /\ uploadedCount + n <= MaxUploaded
  /\ uploadedCount' = uploadedCount + n
  /\ UNCHANGED <<isProcessing, currentStep, processingResult, runPc, runIndex,
                 runSteps, runActions, runLogs, completedSteps, pageHistory,
                 pageDownloads>>

\* a click on Process Documents: handleProcessDocuments up to its first await
HandleProcessDocuments ==
  /\ ~EffectPending
  /\ uploadedCount > 0 /\ ~isProcessing      \* the button is shown and enabled
  /\ uploadedCount # 0
  /\ Len(pageHistory) < MaxPageHistory
  /\ isProcessing' = TRUE
  /\ processingResult' = resultAtStart(processingResult)
  /\ runSteps' = [k \in 1..Len(STEP_IDS) |-> IF k = 1 THEN "active" ELSE "pending"]
  /\ runActions' = <<>>
  /\ runLogs' = <<>>
  /\ runIndex' = 0
  /\ currentStep' = 1
  /\ runPc' = "step"
  /\ UNCHANGED <<uploadedCount, completedSteps, pageHistory, pageDownloads>>

\* the timer of step runIndex resolves: the step logs, is marked completed,
\* and the loop goes on to the next step or leaves with the result
StepDone ==
  /\ ~EffectPending
  /\ runPc = "step"
  /\ LET id   == STEP_IDS[runIndex + 1]
         acts == runActions \o stepActions(id)
         logs == Append(runLogs, stepLog(id))
         next == runIndex + 1
     IN  /\ runActions' = acts
         /\ runLogs' = logs
         /\ runIndex' = next
         /\ IF next < Len(STEP_IDS)
            THEN /\ currentStep' = next + 1
                 /\ runSteps' = [runSteps EXCEPT ![runIndex + 1] = "completed",
                                                 ![next + 1] = "active"]
                 /\ UNCHANGED <<processingResult, runPc>>
            ELSE /\ runSteps' = [runSteps EXCEPT ![runIndex + 1] = "completed"]
                 /\ processingResult' = [actions |-> acts, logs |-> logs]
                 /\ runPc' = "recording"
                 /\ UNCHANGED currentStep
  /\ UNCHANGED <<uploadedCount, isProcessing, completedSteps, pageHistory,
                 pageDownloads>>

\* variant: setIsProcessing(false) after the try statement instead of in its
\* finally clause, so a rejection that leaves the catch clause skips it
processingUnlessRejected(rejected) == rejected

\* finally { setIsProcessing(false) }: runs whether or not the catch clause
\* has thrown
processingAtEnd(rejected) == FALSE

\* the run leaves handleProcessDocuments
RunEnds(rejected) ==
  /\ isProcessing' = processingAtEnd(rejected)
  /\ runPc' = "idle"
  /\ UNCHANGED <<uploadedCount, currentStep, processingResult, runIndex,
                 runSteps, runActions, runLogs, completedSteps, pageDownloads>>

\* await addHistoryEntry({ status: 'completed' }) resolves
RecordCompleted ==
  /\ ~EffectPending
  /\ runPc = "recording"
  /\ pageHistory' = Append(pageHistory, "completed")
  /\ RunEnds(FALSE)

\* await addHistoryEntry({ status: 'completed' }) rejects: the catch block
\* starts addHistoryEntry({ status: 'failed' })
RecordCompletedRejects ==
  /\ ~EffectPending
  /\ runPc = "recording"
  /\ runPc' = "recordingFailure"
  /\ UNCHANGED <<uploadedCount, isProcessing, currentStep, processingResult,
                 runIndex, runSteps, runActions, runLogs, completedSteps,
                 pageHistory, pageDownloads>>

\* await addHistoryEntry({ status: 'failed' }) resolves
RecordFailed ==
  /\ ~EffectPending
  /\ runPc = "recordingFailure"
  /\ pageHistory' = Append(pageHistory, "failed")
  /\ RunEnds(FALSE)

\* await addHistoryEntry({ status: 'failed' }) rejects as well
RecordFailedRejects ==
  /\ ~EffectPending
  /\ runPc = "recordingFailure"
  /\ UNCHANGED pageHistory
  /\ RunEnds(TRUE)

\* handleDownload(type)
HandleDownload(type) ==
  /\ ~EffectPending
  /\ Len(pageDownloads) < MaxPageDownloads
  /\ IF downloadProceeds(processingResult)
     THEN pageDownloads' = Append(pageDownloads, type)
     ELSE UNCHANGED pageDownloads
  /\ UNCHANGED <<uploadedCount, isProcessing, currentStep, processingResult,
                 runPc, runIndex, runSteps, runActions, runLogs, completedSteps,
                 pageHistory>>

PageSpecInit ==
  /\ PageInit
  /\ ValidatorIdle
  /\ dlFormat = "both"
  /\ DownloadIdle
  /\ HistoryInit
  /\ CallsIdle
  /\ UploadParked
  /\ MainParked

PageNext ==
  \/ (\E n \in 1..MaxUploaded : HandleFilesUploaded(n))
       /\ UNCHANGED exceptPage
  \/ HandleProcessDocuments /\ UNCHANGED exceptPage
  \/ StepDone /\ UNCHANGED exceptPage
  \/ RecordCompleted /\ UNCHANGED exceptPage
  \/ RecordCompletedRejects /\ UNCHANGED exceptPage
  \/ RecordFailed /\ UNCHANGED exceptPage
  \/ RecordFailedRejects /\ UNCHANGED exceptPage
  \/ TimelineEffect /\ UNCHANGED exceptPage
  \/ (\E type \in DownloadTypes : HandleDownload(type))
       /\ UNCHANGED exceptPage

PageSpec == PageSpecInit /\ [][PageNext]_vars

\* the completed-step set is what the effect computes from currentStep
CompletedInSync == ~EffectPending

RunInProgress == isProcessing /\ 1 <= currentStep /\ currentStep <= Len(STEP_IDS)

\* C17: while a run is in progress with 1 <= currentStep <= number of steps
\* and the completed-step set in sync with currentStep, the step at index
\* currentStep-1 is the only 'active' one, the steps before it are
\* 'completed' and the steps after it are 'pending'.
C17_OneActiveStep ==
  (RunInProgress /\ CompletedInSync) =>
    \A index \in 0..(Len(STEP_IDS) - 1) :
      getStepStatus(index) =
        IF index < currentStep - 1 THEN "completed"
        ELSE IF index = currentStep - 1 THEN "active"
        ELSE "pending"

AllStepsFinishedInOrder(res) ==
  /\ \A k \in 1..Len(STEP_IDS) : runSteps[k] = "completed"
  /\ runIndex = Len(STEP_IDS)
  /\ Len(res.logs) = Len(STEP_IDS)
  /\ \A k \in 1..Len(STEP_IDS) : res.logs[k].step = STEP_IDS[k]

\* C18: processingResult is cleared when a run starts, it is non-null only
\* after all 8 steps of the run have finished in order, and handleDownload
\* saves nothing while processingResult is null.
C18_DownloadsAfterCompletion ==
  /\ [](processingResult # Null => AllStepsFinishedInOrder(processingResult))
  /\ [][(runPc = "idle" /\ runPc' # "idle") => processingResult' = Null]_vars
  /\ [][processingResult = Null => pageDownloads' = pageDownloads]_vars

\* a second run is under way after a first one finished and was downloaded
C18_Witness ==
  /\ runPc = "step" /\ runIndex = 3
  /\ Len(pageHistory) = 1
  /\ Len(pageDownloads) = 1
  /\ processingResult = Null


(***************************************************************************)
(* mockApi.createHistory: the history kept in localStorage.                *)
(***************************************************************************)
MaxCreates == 52

MaxPending == 2

MaxHistoryClock == 1

\* "Keep only last 50 entries"
HISTORY_LIMIT == 50

\* variant: the entries beyond the limit are cut from the front
unshiftAndCutFront(existing, newHistory) ==
  LET all == <<newHistory>> \o existing
  IN  IF Len(all) > HISTORY_LIMIT
      THEN SubSeq(all, Len(all) - HISTORY_LIMIT + 1, Len(all))
      ELSE all

\* existing.unshift(newHistory); if (existing.length > 50) existing.splice(50)
unshiftAndSplice(existing, newHistory) ==
  LET all == <<newHistory>> \o existing
  IN  IF Len(all) > HISTORY_LIMIT THEN SubSeq(all, 1, HISTORY_LIMIT) ELSE all

\* createHistory(data) is called and waits in its 300 ms delay
CreateHistory ==
  /\ hsPending < MaxPending
  /\ Len(hsCreated) + hsPending < MaxCreates
  /\ hsPending' = hsPending + 1
  /\ UNCHANGED <<hsStored, hsCreated, hsClock>>

\* the delay of one call is over: the entry is built, stored and returned.
\* The stored timestamp is the ISO string of the instant, which orders as
\* the instant does.
CreateHistoryResumes ==
  /\ hsPending > 0
  /\ LET newHistory == [ id        |-> Len(hsCreated) + 1,
                         timestamp |-> hsClock ]
     IN  /\ hsStored' = unshiftAndSplice(hsStored, newHistory)
         /\ hsCreated' = Append(hsCreated, newHistory)
  /\ hsPending' = hsPending - 1
  /\ UNCHANGED hsClock

\* a millisecond passes
HistoryTick ==
  /\ hsClock < MaxHistoryClock
  /\ hsClock' = hsClock + 1
  /\ UNCHANGED <<hsStored, hsPending, hsCreated>>

HistorySpecInit ==
  /\ HistoryInit
  /\ ValidatorIdle
  /\ dlFormat = "both"
  /\ DownloadIdle
  /\ PageInit
  /\ CallsIdle
  /\ UploadParked
  /\ MainParked

HistoryNext ==
  \/ CreateHistory /\ UNCHANGED exceptHistory
  \/ CreateHistoryResumes /\ UNCHANGED exceptHistory
  \/ HistoryTick /\ UNCHANGED exceptHistory

HistorySpec == HistorySpecInit /\ [][HistoryNext]_vars

\* C19: the persisted history holds at most 50 entries, newest first, and
\* they are exactly the most recently created ones.
C19_HistoryKeepsNewest ==
  /\ Len(hsStored) <= 50
  /\ Len(hsStored) = Min(50, Len(hsCreated))
  /\ \A k \in 1..Len(hsStored) : hsStored[k] = hsCreated[Len(hsCreated) - k + 1]
  /\ \A k \in 1..(Len(hsStored) - 1) :
       hsStored[k].timestamp >= hsStored[k + 1].timestamp

\* more than 50 entries have been created, the oldest has been dropped
C19_Witness ==
  /\ Len(hsCreated) > 50
  /\ Len(hsStored) = 50
  /\ hsStored[50].id = Len(hsCreated) - 49
  /\ hsStored[1].timestamp > hsStored[50].timestamp


(***************************************************************************)
(* Several validateFile calls in progress at once on one FileValidator.    *)
(* A call keeps its parameter and its FileReader in locals; the instance   *)
(* holds the options only.                                                 *)
(***************************************************************************)
ConcurrentOverrides ==
  { NoOverride,
    [allowedExtensions |-> << <<"p","d","f">>, <<"a">>, <<"j","s">>,
                              <<"e","x","e">> >>] }

ConcurrentConfigurations == { mergeOptions(o) : o \in ConcurrentOverrides }

ConcurrentFiles ==
  { [name |-> n, type |-> t, size |-> b.size, content |-> b.content] :
      n \in { <<"f","i","l","e",".","p","d","f">>, <<"a","p","p",".","j","s">> },
      t \in { "application/pdf", "image/jpeg" },
      b \in { [size |-> 4, content |-> <<37, 80, 68, 70>>],
              [size |-> 4, content |-> <<255, 216, 255, 224>>] } }

\* validateFile up to the header read, for each explored configuration and
\* file
checksOutcome ==
  [ opts \in ConcurrentConfigurations, f \in ConcurrentFiles |->
      validateFileChecks(opts, f) ]

\* file.slice(0, 4)
headerBlob(f) == substring0(f.content, PDF_HEADER_LENGTH)

\* variant: one FileReader kept on the instance, so a load sees the blob of
\* the latest call that is reading
blobOfSharedReader(cs, c) ==
  LET reading == { d \in DOMAIN cs : cs[d].pc = "reading" }
  IN  cs[CHOOSE d \in reading : \A e \in reading : e <= d].blob

\* the blob the FileReader of call c has read: the one of its own call
blobOfReader(cs, c) == cs[c].blob

\* call c starts validateFile(f)
CallValidateFile(c, f) ==
  /\ calls[c].pc = "idle"
  /\ LET outcome == checksOutcome[options, f]
         others  == \E d \in CallIds : calls[d].pc = "reading"
     IN  calls' = [calls EXCEPT ![c] =
           IF outcome.returned
           THEN [ pc |-> "done", file |-> f, reader |-> "none", blob |-> <<>>,
                  caught |-> NoFault, result |-> outcome.value,
                  overlapped |-> others ]
           ELSE [ pc |-> "reading", file |-> f, reader |-> "loading",
                  blob |-> headerBlob(f), caught |-> NoFault,
                  result |-> NoResult, overlapped |-> others ]]
  /\ UNCHANGED options

\* call c reaches validatePdfHeader, which throws instead of starting the read
CallValidateFileThrows(c, f, fault) ==
  /\ calls[c].pc = "idle"
  /\ ~checksOutcome[options, f].returned
  /\ calls' = [calls EXCEPT ![c] =
       [ pc |-> "done", file |-> f, reader |-> "none", blob |-> <<>>,
         caught |-> fault, result |-> failedResult(fault),
         overlapped |-> \E d \in CallIds : calls[d].pc = "reading" ]]
  /\ UNCHANGED options

\* reader.onload of call c
CallReaderOnLoad(c) ==
  /\ calls[c].pc = "reading"
  /\ calls' = [calls EXCEPT ![c] =
       [@ EXCEPT !.pc = "done", !.reader = "loaded",
                 !.result = IF validatePdfHeader(blobOfReader(calls, c))
                            THEN validResult ELSE pdfResult]]
  /\ UNCHANGED options

\* reader.onerror of call c
CallReaderOnError(c) ==
  /\ calls[c].pc = "reading"
  /\ calls' = [calls EXCEPT ![c] =
       [@ EXCEPT !.pc = "done", !.reader = "error", !.result = pdfResult]]
  /\ UNCHANGED options

\* the caller of call c takes its result
CallTakeResult(c) ==
  /\ calls[c].pc = "done"
  /\ calls' = [calls EXCEPT ![c] = IdleCall]
  /\ UNCHANGED options

ConcurrentSpecInit ==
  /\ options \in ConcurrentConfigurations
  /\ pc = "idle" /\ file = NoFile /\ reader = "none"
  /\ caught = NoFault /\ result = NoResult
  /\ CallsIdle
  /\ dlFormat = "both"
  /\ DownloadIdle
  /\ PageInit
  /\ HistoryInit
  /\ UploadParked
  /\ MainParked

ConcurrentNext ==
  \/ \E c \in CallIds, f \in ConcurrentFiles :
       CallValidateFile(c, f) /\ UNCHANGED exceptCalls
  \/ \E c \in CallIds, f \in ConcurrentFiles, fault \in Faults :
       CallValidateFileThrows(c, f, fault) /\ UNCHANGED exceptCalls
  \/ \E c \in CallIds : CallReaderOnLoad(c) /\ UNCHANGED exceptCalls
  \/ \E c \in CallIds : CallReaderOnError(c) /\ UNCHANGED exceptCalls
  \/ \E c \in CallIds : CallTakeResult(c) /\ UNCHANGED exceptCalls

ConcurrentSpec == ConcurrentSpecInit /\ [][ConcurrentNext]_vars

\* what validateFile(f) returns when it is the only call, given how its read
\* went
SoloResult(opts, f, rd, fault) ==
  LET outcome == validateFileChecks(opts, f)
  IN  IF outcome.returned THEN outcome.value
      ELSE IF fault # NoFault THEN failedResult(fault)
      ELSE IF rd = "loaded" THEN headerLoadedResult(f)
      ELSE pdfResult

\* C15: whatever the interleaving of the calls at their reads, each call
\* returns the result it returns when run alone, and no call changes the
\* configuration of the validator.
C15_CallsIndependent ==
  /\ [](\A c \in CallIds :
          calls[c].pc = "done" =>
            calls[c].result =
              SoloResult(options, calls[c].file, calls[c].reader, calls[c].caught))
  /\ [][options' = options]_vars

\* a call that started while another was reading a different header has
\* finished its own read first, with a different verdict pending for the other
C15_Witness ==
  /\ calls[2].pc = "done" /\ calls[2].overlapped /\ calls[2].reader = "loaded"
  /\ calls[2].result.isValid
  /\ calls[1].pc = "reading"
  /\ ~validatePdfHeader(calls[1].blob)


(***************************************************************************)
(* UploadZone.handleFileUpload, with the validator the component imports:  *)
(* the default fileValidator.                                              *)
(***************************************************************************)
MaxSelected == 1

MaxUploadCalls == 2

UploadLimits == {1, 2, DEFAULT_MAX_FILES}

UploadFiles ==
  { [name |-> <<"f","i","l","e",".","p","d","f">>, type |-> "application/pdf",
     size |-> 4, content |-> <<37, 80, 68, 70>>],
    [name |-> <<"p","h","o","t","o",".","j","p","g">>, type |-> "image/jpeg",
     size |-> 10 * 1024 * 1024 + 1, content |-> <<255, 216, 255, 224, 0>>] }

\* the selections the user makes: up to MaxSelected files, or one file more
\* than the default limit
UploadSelections ==
  UNION { [1..n -> UploadFiles] : n \in 0..MaxSelected }
    \cup { [k \in 1..(DEFAULT_MAX_FILES + 1) |-> f] : f \in UploadFiles }

\* fileValidator.validateFile(file) up to the header read, for each file
uploadChecks == [ f \in UploadFiles |-> validateFileChecks(DEFAULT_OPTIONS, f) ]

\* variant: the limit is passed only by two files or more
tooManyByTwo(n, maxFiles) == n > maxFiles + 1

\* fileArray.length > maxFiles
tooManyFiles(n, maxFiles) == n > maxFiles

\* what await fileValidator.validateFile(f) hands to the loop: the verdict
\* of the default validator on f or, for a file that verdict stops at the
\* extension check only, the result of a validation that passes
validationResults(f) ==
  LET outcome == uploadChecks[f]
  IN  IF ~outcome.returned THEN {headerLoadedResult(f), pdfResult}
      ELSE IF outcome.value = extensionResult(DEFAULT_OPTIONS, f)
      THEN {outcome.value, validResult}
      ELSE {outcome.value}

\* Math.random() * 30, two of its values
ProgressIncrements == {25, 29}

\* no read and no progress interval of an earlier selection is still going
UploadsSettled ==
  \A id \in DOMAIN upReaders :
    upReaders[id].state # "loading" /\ upReaders[id].interval # "running"

\* handleFileUpload(files) up to its first await; selections are explored
\* one after the other
HandleFileUpload(files) ==
  /\ upPc = "idle"
  /\ UploadsSettled
  /\ upCalls < MaxUploadCalls
  /\ upCalls' = upCalls + 1
  /\ upFiles' = files
  /\ IF tooManyFiles(Len(files), upMaxFiles)
     THEN UNCHANGED <<upPc, upIndex, upList, upReaders>>
     ELSE /\ upList' = <<>>
          /\ upReaders' = <<>>
          /\ upIndex' = 1
          /\ upPc' = IF Len(files) = 0 THEN "waiting" ELSE "validating"
  /\ UNCHANGED <<upMaxFiles, uploadProgress, upDelivered>>

\* await fileValidator.validateFile(file) is over for the file at upIndex:
\* an invalid file is pushed with its error, a valid one gets its progress
\* entry and its FileReader; then the loop goes on or sets the 100 ms timer
FileValidated ==
  /\ upPc = "validating"
  /\ LET f       == upFiles[upIndex]
         fileId  == <<upCalls, upIndex>>
     IN  \E validationResult \in validationResults(f) :
           IF ~validationResult.isValid
           THEN /\ upList' = Append(upList,
                      [id |-> fileId, file |-> f, error |-> validationResult.error])
                /\ UNCHANGED <<upReaders, uploadProgress>>
           ELSE /\ uploadProgress' = uploadProgress @@ (fileId :> 0)
                /\ upReaders' = upReaders @@
                     (fileId :> [state |-> "loading", interval |-> "none",
                                 progress |-> 0])
                /\ UNCHANGED upList
  /\ upIndex' = upIndex + 1
  /\ upPc' = IF upIndex = Len(upFiles) THEN "waiting" ELSE "validating"
  /\ UNCHANGED <<upMaxFiles, upCalls, upFiles, upDelivered>>

\* the 100 ms timer fires: onFilesUploaded(uploadedFiles), and the page
\* copies the array as it is at this moment into its state
DeliverFiles ==
  /\ upPc = "waiting"
  /\ upDelivered' = upDelivered + 1
  /\ upPc' = "idle"
  /\ UNCHANGED <<upMaxFiles, upCalls, upFiles, upIndex, upList, upReaders,
                 uploadProgress>>

\* reader.onload of the file fileId: the file is pushed to the array
\* uploadedFiles of its call and the progress interval is started
UploadReaderOnLoad(fileId) ==
  /\ fileId \in DOMAIN upReaders
  /\ upReaders[fileId].state = "loading"
  /\ upReaders' = [upReaders EXCEPT ![fileId] =
       [state |-> "loaded", interval |-> "running", progress |-> 0]]
  /\ upList' = Append(upList, [id |-> fileId, file |-> upFiles[fileId[2]]])
  /\ UNCHANGED <<upMaxFiles, upCalls, upFiles, upPc, upIndex, uploadProgress,
                 upDelivered>>

\* reader.onerror of the file fileId: the file is pushed with its error
UploadReaderOnError(fileId) ==
  /\ fileId \in DOMAIN upReaders
  /\ upReaders[fileId].state = "loading"
  /\ upReaders' = [upReaders EXCEPT ![fileId].state = "failed"]
  /\ upList' = Append(upList,
       [id |-> fileId, file |-> upFiles[fileId[2]],
        error |-> [text |-> "Failed to read file", args |-> <<>>]])
  /\ UNCHANGED <<upMaxFiles, upCalls, upFiles, upPc, upIndex, uploadProgress,
                 upDelivered>>

\* setUploadProgress(prev => { delete newProgress[fileId] })
deleteProgress(prev, fileId) ==
  [id \in DOMAIN prev \ {fileId} |-> prev[id]]

\* setUploadProgress(prev => ({ ...prev, [fileId]: progress }))
setProgress(prev, fileId, progress) ==
  [id \in DOMAIN prev \cup {fileId} |->
     IF id = fileId THEN progress ELSE prev[id]]

\* one run of the interval callback of the file fileId
ProgressTick(fileId, increment) ==
  /\ fileId \in DOMAIN upReaders
  /\ upReaders[fileId].interval = "running"
  /\ LET raised == upReaders[fileId].progress + increment
     IN  IF raised >= 100
         THEN /\ upReaders' = [upReaders EXCEPT ![fileId].progress = 100,
                                                ![fileId].interval = "cleared"]
              /\ uploadProgress' =
                   setProgress(deleteProgress(uploadProgress, fileId), fileId, 100)
         ELSE /\ upReaders' = [upReaders EXCEPT ![fileId].progress = raised]
              /\ uploadProgress' = setProgress(uploadProgress, fileId, raised)
  /\ UNCHANGED <<upMaxFiles, upCalls, upFiles, upPc, upIndex, upList,
                 upDelivered>>

UploadSpecInit ==
  /\ upMaxFiles \in UploadLimits
  /\ UploadIdle
  /\ ValidatorIdle
  /\ CallsIdle
  /\ dlFormat = "both"
  /\ DownloadIdle
  /\ PageInit
  /\ HistoryInit
  /\ MainParked

UploadNext ==
  \/ upPc = "idle" /\ UNCHANGED exceptUpload
       /\ \E files \in UploadSelections : HandleFileUpload(files)
  \/ FileValidated /\ UNCHANGED exceptUpload
  \/ DeliverFiles /\ UNCHANGED exceptUpload
  \/ \E fileId \in DOMAIN upReaders :
       UploadReaderOnLoad(fileId) /\ UNCHANGED exceptUpload
  \/ \E fileId \in DOMAIN upReaders :
       UploadReaderOnError(fileId) /\ UNCHANGED exceptUpload
  \/ \E fileId \in DOMAIN upReaders, increment \in ProgressIncrements :
       ProgressTick(fileId, increment) /\ UNCHANGED exceptUpload

UploadSpec == UploadSpecInit /\ [][UploadNext]_vars

\* C20: a selection of more files than maxFiles starts no validation and no
\* read, creates no upload-progress entry, and onFilesUploaded is not called
\* for it.
C20_TooManyFilesIgnored ==
  /\ []((upCalls > 0 /\ Len(upFiles) > upMaxFiles) => upPc = "idle")
  /\ [][Len(upFiles') > upMaxFiles =>
          UNCHANGED <<upPc, upIndex, upList, upReaders, uploadProgress,
                      upDelivered>>]_vars

\* after a selection that was delivered, a selection over the limit has come
C20_Witness ==
  /\ upCalls = 2
  /\ Len(upFiles) > upMaxFiles
  /\ upDelivered = 1
  /\ Len(upList) = upMaxFiles


C24_FinishedProgressRemoved ==
  \A id \in DOMAIN upReaders :
    upReaders[id].interval = "cleared" => id \notin DOMAIN uploadProgress


\* the run that ends in this step had all its steps finished and its result
\* set
RunCompleted ==
  /\ \A k \in 1..Len(STEP_IDS) : runSteps[k] = "completed"
  /\ processingResult # Null

\* C22: a run records exactly one history entry, when it ends: 'completed'
\* if all its steps finished and its result was set, 'failed' otherwise.
C22_OneEntryPerRun ==
  [][IF runPc # "idle" /\ runPc' = "idle"
     THEN pageHistory' =
            Append(pageHistory, IF RunCompleted THEN "completed" ELSE "failed")
     ELSE pageHistory' = pageHistory]_vars

(***************************************************************************)
(* The main page: processDocuments.                                        *)
(***************************************************************************)
\* the eight entries of the local array steps
MAIN_STEP_COUNT == 8

\* a click on Process Files: processDocuments up to its first await
ProcessDocuments ==
  /\ ~mainIsProcessing /\ mainValidFiles # 0   \* the button is enabled
  /\ mainPc = "idle"
  /\ mainIsProcessing' = TRUE
  /\ mainCurrentStep' = 0
  /\ mainPc' = "step"
  /\ UNCHANGED <<mainValidFiles, mainResult>>

\* the timer of step mainCurrentStep resolves: the loop sets the next step
\* or leaves for the fetch of the mock response
MainStepDone ==
  /\ mainPc = "step"
  /\ IF mainCurrentStep + 1 < MAIN_STEP_COUNT
     THEN mainCurrentStep' = mainCurrentStep + 1 /\ UNCHANGED mainPc
     ELSE mainPc' = "fetching" /\ UNCHANGED mainCurrentStep
  /\ UNCHANGED <<mainValidFiles, mainIsProcessing, mainResult>>

\* fetch and response.json() resolve: the result is set; or one of them
\* rejects and the catch clause logs; then setIsProcessing(false)
FetchSettles(ok) ==
  /\ mainPc = "fetching"
  /\ mainResult' = IF ok THEN [set |-> TRUE] ELSE mainResult
  /\ mainIsProcessing' = FALSE
  /\ mainPc' = "idle"
  /\ UNCHANGED <<mainValidFiles, mainCurrentStep>>

MainNext ==
  \/ ProcessDocuments /\ UNCHANGED exceptMain
  \/ MainStepDone /\ UNCHANGED exceptMain
  \/ (\E ok \in BOOLEAN : FetchSettles(ok)) /\ UNCHANGED exceptMain

\* one of the two pages is open, with files uploaded to it
RunsInit ==
  /\ PageInit /\ mainValidFiles \in 0..MaxUploaded /\ MainIdle
  /\ ValidatorIdle /\ CallsIdle /\ UploadParked /\ HistoryInit
  /\ dlFormat = "both" /\ DownloadIdle

\* the page that is open takes its steps; the other one is not mounted
RunsNext ==
  \/ (MainIdle /\ mainResult = Null) /\ PageNext
  \/ PageInit /\ MainNext

RunsSpec == RunsInit /\ [][RunsNext]_vars

\* the step timers fire, the addHistoryEntry and fetch promises settle and
\* the effect of the timeline runs
RunsFairSpec ==
  /\ RunsSpec
  /\ WF_vars(StepDone /\ UNCHANGED exceptPage)
  /\ WF_vars((RecordCompleted \/ RecordCompletedRejects) /\ UNCHANGED exceptPage)
  /\ WF_vars((RecordFailed \/ RecordFailedRejects) /\ UNCHANGED exceptPage)
  /\ WF_vars(TimelineEffect /\ UNCHANGED exceptPage)
  /\ WF_vars(MainStepDone /\ UNCHANGED exceptMain)
  /\ WF_vars(FetchSettles(TRUE) /\ UNCHANGED exceptMain)
  /\ WF_vars(FetchSettles(FALSE) /\ UNCHANGED exceptMain)

\* C23: a run that has started ends, with isProcessing false, also when
\* recording its history entry or loading its result fails; isProcessing is
\* true all through it. This holds on the refactored page and on the main
\* page.
C23_RunEndsNotProcessing ==
  /\ (runPc # "idle") ~> (runPc = "idle" /\ ~isProcessing)
  /\ [](runPc # "idle" => isProcessing)
  /\ [](runPc = "idle" => ~isProcessing)
  /\ (mainPc # "idle") ~> (mainPc = "idle" /\ ~mainIsProcessing)
  /\ [](mainPc # "idle" <=> mainIsProcessing)

\* a run of the refactored page has ended after both attempts at recording
\* it were rejected
C23_Witness ==
  /\ runPc = "idle" /\ ~isProcessing
  /\ processingResult # Null
  /\ pageHistory = <<>>

====
